---- MODULE Spec2Model ----
(***************************************************************************)
(* Safe Mutation Store of schegen: the direct database client of           *)
(* src/src/services/databaseClient.js (preview / execute / backup /        *)
(* rollback / replace-all over the wp_postmeta table), with the in-memory  *)
(* backup maps, the module-level backup index and the durable backups      *)
(* file.  Every handler is one action; the statements a call issues are    *)
(* recorded in `stmts`, its return value in `result`.                      *)
(***************************************************************************)
EXTENDS Integers, Sequences, FiniteSets, TLC

\* ---------------------------------------------------------------- bounds
\* calls made one after the other on the single-row protocol (Spec)
MaxTime == 3
\* multi-row calls made one after the other (SpecGraph)
MaxBatchCalls == 1
\* SERVICE_KEYWORDS found in a page, headings of one kind, location phrases
\* found (SpecDetect)
MaxKeywordHits == 2
MaxHeadingHits == 1
MaxPhraseHits == 2
\* URLs of one bulk job (SpecBulk)
MaxUrls == 3
\* the last instant of the clock, ms (SpecLimiter)
MaxClock == 4500
\* words of a page text (SpecServiceType)
MaxWords == 2

\* ------------------------------------------------------ program constants
MAX_BACKUPS == 50
\* detect: scores.location >= 4
LocationFloor == 4
\* fetchWithRetry(url, maxRetries = 3); parse: attempt <= 2
DefaultMaxRetries == 3
SitemapAttempts == 2
\* axios timeout of a page or sitemap request, ms
RequestTimeout == 45000
\* Minimum 1.5 seconds between requests
MIN_REQUEST_INTERVAL == 1500

\* ---------------------------------------------------------------- domains
\* the clients created for the store (create, createPool), and the one the
\* calls of Spec, SpecGraph and SpecRace are made through
Clients == {"c1", "c2"}
Callers == {"c1"}
ExistingPosts == {1, 2}
PostIds == {1, 2, 3}
Undefined == "undefined"
NoError == "ok"
StoreErrors == {"Lock wait timeout exceeded"}
FileError == "ENOSPC"
ReadError == "Connection lost"
WriteOutcomes == {NoError} \cup StoreErrors
Shortcodes == {"s-1a2b"}

\* SCHEMA_TYPES, split by canBePrimary
PrimaryCapableTypes ==
  {"Service", "LocalBusiness", "Organization", "Article", "NewsArticle",
   "BlogPosting", "HowTo", "Product", "Event", "Person", "Recipe",
   "VideoObject", "Course", "JobPosting", "SoftwareApplication", "Book",
   "Custom"}
SecondaryOnlyTypes ==
  {"FAQPage", "Offer", "Review", "AggregateRating", "Place",
   "BreadcrumbList", "WebPage"}
SCHEMA_TYPES == PrimaryCapableTypes \cup SecondaryOnlyTypes

\* The fields validate() requires of an entity of each type.
RequiredOf(t) ==
  IF t \in {"Service", "LocalBusiness", "HVACBusiness"} THEN {"name"}
  ELSE IF t = "Article" THEN {"headline"}
  ELSE IF t = "FAQPage" THEN {"mainEntity"}
  ELSE {}
\* JSON-LD entities: the @type field (<<>> when missing, one element for a
\* string, several for an array), the number of own keys, the content, and
\* which of the fields validate() looks for are present.
Entity(t, n, v) ==
  [type |-> t, nkeys |-> n, v |-> v,
   has |-> UNION {RequiredOf(t[i]) : i \in 1..Len(t)}]
Without(e, f) == [e EXCEPT !.has = @ \ {f}, !.nkeys = @ - 1]
SvcA == Entity(<<"Service">>, 5, "svc-A")
SvcB == Entity(<<"Service">>, 6, "svc-B")
ArtA == Entity(<<"Article">>, 5, "art-A")
FaqA == Entity(<<"FAQPage", "WebPage">>, 4, "faq-A")
SiteA == Entity(<<"WebSite">>, 3, "site-A")
\* the entities single-row calls are made with
ExecEntities == {SvcA, FaqA}
\* the @graph arrays multi-row calls are made with
Graphs ==
  { <<>>, <<SvcA>>, <<FaqA>>, <<SiteA, FaqA>>, <<SvcA, FaqA>>, <<FaqA, SvcA>>,
    <<SvcA, ArtA>>, <<ArtA, SvcA>>, <<SvcA, SvcB>>, <<SiteA, FaqA, ArtA>> }
PrimaryTypeOpts == {Undefined, "FAQPage"}

\* ------------------------------------------------------------ meta keys
SchemaPrefix == "rank_math_schema_"
MetaKey(t) == <<SchemaPrefix, t>>
RichSnippetKey == <<"rank_math_", "rich_snippet">>
EditLockKey == <<"_", "edit_lock">>
\* a key of another writer that begins rank_math_schema but not
\* rank_math_schema_
SchemasIndexKey == <<"rank_math_schemas", "_index">>
\* SQL: meta_key LIKE 'rank_math%'
LikeRankMath(k) == k[1] \in {"rank_math_", SchemaPrefix, "rank_math_schemas"}
LikeServiceSchemaOnly(k) == k = MetaKey("Service")
\* SQL: meta_key LIKE 'rank_math_schema_%', where _ stands for any one
\* character
LikeRankMathSchema(k) == k[1] \in {SchemaPrefix, "rank_math_schemas"}
\* JS: key.startsWith('rank_math_schema_')
StartsWithSchema(k) == k[1] = SchemaPrefix

\* ------------------------------------------------------- pure functions
RECURSIVE FirstKnownType(_, _)
FirstKnownType(type, i) ==
  IF i > Len(type) THEN type[1]
  ELSE IF type[i] \in SCHEMA_TYPES THEN type[i]
  ELSE FirstKnownType(type, i + 1)

ExtractSchemaType(schema) ==
  IF schema.type = <<>> THEN "Custom" ELSE FirstKnownType(schema.type, 1)

ConvertToRankMathFormat(schema, schemaType, isPrimary, shortcode) ==
  LET title == IF schemaType \in SCHEMA_TYPES THEN schemaType ELSE "Custom"
      canBePrimary == title \in PrimaryCapableTypes
      metadata ==
        IF isPrimary /\ canBePrimary
        THEN << <<"title", title>>, <<"type", "custom">>,
                <<"shortcode", shortcode>>, <<"isPrimary", "1">>,
                <<"name", "%seo_title%">>,
                <<"description", "%seo_description%">>,
                <<"reviewLocationShortcode", "[rank_math_rich_snippet]">> >>
        ELSE << <<"type", "custom">>, <<"title", title>> >>
  IN [metadata |-> metadata, schema |-> schema]

\* PHP serialize() of the RankMath object: an associative array of
\* 1 + nkeys pairs, the metadata array first, then the entity's own fields.
PhpSerialize(rm) ==
  [fmt |-> "a", n |-> 1 + rm.schema.nkeys,
   meta |-> [n |-> Len(rm.metadata), kv |-> rm.metadata],
   body |-> <<rm.schema.type, rm.schema.v>>, fields |-> rm.schema.has]

RawValue(s) == [fmt |-> "s", n |-> 0, meta |-> [n |-> 0, kv |-> <<>>],
                body |-> <<<<>>, s>>, fields |-> {}]

\* Option values as they arrive in the options object.
DryRunOpts == {Undefined, "false"}
BackupOpts == {Undefined, "false"}
PrimaryOpts == {Undefined}
\* const { x = dflt } = options, then used as a condition
Default(opt, dflt) == IF opt = Undefined THEN dflt ELSE opt = "true"

\* ------------------------------------------------------------------ state
VARIABLES
  postmeta,    \* wp_postmeta: rows [meta_id, post_id, meta_key, meta_value]
  nextId,      \* AUTO_INCREMENT of wp_postmeta.meta_id
  backups,     \* per client: the Map postId -> backup
  persisted,   \* persistedBackups[storageKey]: postId -> backup
  file,        \* content of data/backups.json for the storage key
  now,         \* wall clock, one tick per call
  call,        \* the last call: operation and arguments
  stmts,       \* the statements and backup writes the last call issued
  result,      \* what the last call returned (or threw)
  before,      \* the table and the backup stores as the last call found them
  law,         \* progress of a backup / execute / rollback sequence on a record
  race,        \* two insertSchema calls in flight: inputs, positions, locals
  page,        \* generate(): its arguments and the graph it returned
  det,         \* detect(): the signals of a page and the type it returned
  job,         \* a bulk job: urls, position, results, errors, status
  fetch,       \* one external fetch: which fetcher, its attempts, how it ended
  limiter,     \* fetchHtml calls in progress, the clock and lastRequestTime
  geo,         \* country detection: the hints given and each detector's answer
  svcType,     \* extractServiceType: the text given and the entry it matched
  repair       \* ensureProviderAddresses: the schemas given and returned

\* the variables the calls made one at a time leave alone
net == <<fetch, limiter, geo, svcType, repair>>
ext == <<race, page, det, job, net>>
vars == <<postmeta, nextId, backups, persisted, file, now, call, stmts, result,
          before, law, race, page, det, job, net>>

Row(id, p, k, v) == [meta_id |-> id, post_id |-> p, meta_key |-> k, meta_value |-> v]

RowsOf(pm, postId) == {r \in pm : r.post_id = postId}
SchemaRowsOf(pm, postId) ==
  {r \in pm : r.post_id = postId /\ StartsWithSchema(r.meta_key)}
Pairs(rows) == {<<r.meta_key, r.meta_value>> : r \in rows}

RECURSIVE SortById(_)
SortById(S) ==
  IF S = {} THEN <<>>
  ELSE LET m == CHOOSE r \in S : \A q \in S : r.meta_id <= q.meta_id
       IN <<m>> \o SortById(S \ {m})

EmptyMap == [p \in {} |-> 0]
NoCall == [op |-> "none", client |-> "", postId |-> 0, dryRun |-> Undefined,
           backup |-> FALSE, rows |-> <<>>, hasGraph |-> FALSE, graph |-> <<>>,
           primaryType |-> Undefined, rejected |-> {}]
NoLaw == [stage |-> 0, client |-> "", postId |-> 0, rows |-> {},
          args |-> <<>>, preview |-> [success |-> FALSE]]
NoBackup == [timestamp |-> -1, schemas |-> <<>>]
NoRace == [post |-> 0, backup |-> FALSE, ent |-> <<>>, pc |-> <<>>,
           preview |-> <<>>, result |-> <<>>]

\* an event of a call: a statement sent to the store or a backup write, with
\* the answer it got (NoError or the error message)
Ev(kind, key, outcome) == [ev |-> kind, key |-> key, outcome |-> outcome]
RowChanging == {"INSERT", "UPDATE", "DELETE"}
NoKey == <<"", "">>

\* Rows the external store may hold before the first call.
OldValue(e, t, primary) ==
  PhpSerialize(ConvertToRankMathFormat(e, t, primary, "s-0old"))
SeedRows ==
  { Row(1, 1, MetaKey("Service"),
        OldValue(Entity(<<"Service">>, 5, "svc-old"), "Service", TRUE)),
    Row(2, 1, MetaKey("FAQPage"),
        OldValue(Entity(<<"FAQPage">>, 4, "faq-old"), "FAQPage", FALSE)),
    Row(3, 1, RichSnippetKey, RawValue("service")),
    Row(4, 2, MetaKey("Article"),
        OldValue(Entity(<<"Article">>, 5, "art-old"), "Article", TRUE)),
    Row(5, 2, EditLockKey, RawValue("1700000000:1")),
    Row(6, 2, SchemasIndexKey, RawValue("Article")) }

FixedSeedRows == {r \in SeedRows : r.meta_id >= 3}
Snapshot == [postmeta |-> postmeta, backups |-> backups,
             persisted |-> persisted, file |-> file]

InitStore ==
  /\ \E S \in SUBSET (SeedRows \ FixedSeedRows) : postmeta = S \cup FixedSeedRows
  /\ nextId = 7
  /\ backups = [c \in Clients |-> EmptyMap]
  /\ persisted = EmptyMap
  /\ file = EmptyMap
  /\ now = 0
  /\ call = NoCall
  /\ law = NoLaw
  /\ stmts = <<>>
  /\ result = [threw |-> FALSE, success |-> TRUE]
  /\ before = [postmeta |-> postmeta, backups |-> backups,
               persisted |-> persisted, file |-> file]

NoPage == [in |-> <<>>, done |-> FALSE, graph |-> <<>>]
NoDet == [in |-> <<>>, done |-> FALSE, scores |-> <<>>, out |-> ""]
NoJob == [n |-> 0, processed |-> 0, results |-> <<>>, errors |-> <<>>,
          status |-> "none", outcomes |-> <<>>]
NoFetch == [by |-> "", log |-> <<>>, status |-> "idle"]
NoLimiter == [clock |-> 0, lastRequestTime |-> 0, pc |-> <<>>, wake |-> <<>>,
              started |-> <<>>]
NoGeo == [in |-> <<>>, done |-> FALSE, out |-> <<>>]
NoSvcType == [in |-> <<>>, done |-> FALSE, out |-> 0]
NoRepair == [in |-> <<>>, done |-> FALSE, out |-> <<>>]
NetIdle ==
  /\ fetch = NoFetch
  /\ limiter = NoLimiter
  /\ geo = NoGeo
  /\ svcType = NoSvcType
  /\ repair = NoRepair

Init ==
  /\ InitStore
  /\ race = NoRace
  /\ page = NoPage
  /\ det = NoDet
  /\ job = NoJob
  /\ NetIdle

\* one store, for the specifications of the functions that read none
InitIdle ==
  /\ InitStore
  /\ postmeta = SeedRows
  /\ race = NoRace

\* ------------------------------------------------------------- backups
\* saveBackupsToFile: merge the client's whole map into the index, prune to
\* the MAX_BACKUPS newest, write the file (a failed write is only logged).
Precedes(m, p, q) ==
  \/ m[p].timestamp > m[q].timestamp
  \/ m[p].timestamp = m[q].timestamp /\ p < q
Prune(m) ==
  IF Cardinality(DOMAIN m) > MAX_BACKUPS
  THEN LET keep == {p \in DOMAIN m :
                     Cardinality({q \in DOMAIN m : Precedes(m, q, p)}) < MAX_BACKUPS}
       IN [p \in keep |-> m[p]]
  ELSE m
SaveBackupsToFile(backupsMap, per, fileContent, fileOk) ==
  LET merged == [p \in DOMAIN per \cup DOMAIN backupsMap |->
                   IF p \in DOMAIN backupsMap THEN backupsMap[p] ELSE per[p]]
      pruned == Prune(merged)
  IN [persisted |-> pruned,
      file |-> IF fileOk THEN pruned ELSE fileContent]

LoadBackupFromFile(per, postId) ==
  IF postId \in DOMAIN per THEN per[postId] ELSE NoBackup

GetExistingSchemas(pm, postId) ==
  LET s == SortById({r \in pm : r.post_id = postId /\ LikeRankMath(r.meta_key)})
  IN [i \in 1..Len(s) |->
        [metaId |-> s[i].meta_id, key |-> s[i].meta_key, value |-> s[i].meta_value]]

\* backupMeta as a function of the state: the client's map, the index, the
\* file and the backup events.  outcome: "ok", "read_fail" (the SELECT
\* throws), "file_fail" (writeFileSync throws and is caught).
BackupOutcomes == {"ok", "read_fail", "file_fail"}
BackupMetaOp(bmap, per, fileContent, pm, postId, t, outcome) ==
  IF outcome = "read_fail"
  THEN [threw |-> TRUE, backups |-> bmap, persisted |-> per, file |-> fileContent,
        stmts |-> <<Ev("BACKUP_READ", NoKey, ReadError)>>, backedUp |-> 0]
  ELSE LET existing == GetExistingSchemas(pm, postId)
           b == [timestamp |-> t, schemas |-> existing]
           bmap2 == [p \in DOMAIN bmap \cup {postId} |->
                       IF p = postId THEN b ELSE bmap[p]]
           saved == SaveBackupsToFile(bmap2, per, fileContent, outcome = "ok")
       IN [threw |-> FALSE, backups |-> bmap2, persisted |-> saved.persisted,
           file |-> saved.file,
           stmts |-> <<Ev("BACKUP_MEM", NoKey, NoError),
                       Ev("BACKUP_FILE", NoKey,
                          IF outcome = "ok" THEN NoError ELSE FileError)>>,
           backedUp |-> Len(existing)]

Thrown(msg) == [threw |-> TRUE, success |-> FALSE, error |-> msg]

BackupMeta(c, postId, outcome) ==
  /\ now < MaxTime
  /\ LET o == BackupMetaOp(backups[c], persisted, file, postmeta, postId, now, outcome)
     IN /\ backups' = [backups EXCEPT ![c] = o.backups]
        /\ persisted' = o.persisted
        /\ file' = o.file
        /\ stmts' = o.stmts
        /\ result' = IF o.threw THEN Thrown(ReadError)
                     ELSE [threw |-> FALSE, success |-> TRUE, postId |-> postId,
                           backedUp |-> o.backedUp, backupId |-> postId]
  /\ call' = [NoCall EXCEPT !.op = "backupMeta", !.client = c, !.postId = postId]
  /\ law' = IF outcome = "read_fail" THEN NoLaw
            ELSE [NoLaw EXCEPT !.stage = 1, !.client = c, !.postId = postId]
  /\ now' = now + 1
  /\ before' = Snapshot
  /\ UNCHANGED <<postmeta, nextId>>
  /\ UNCHANGED ext

\* ------------------------------------------------------------- preview
\* previewInsertion: two SELECTs, no statement that changes a row.
PreviewInsertionResult(pm, postId, schema, schemaType) ==
  IF postId \notin ExistingPosts
  THEN [threw |-> FALSE, success |-> FALSE, postId |-> postId,
        error |-> "Post ID not found"]
  ELSE LET detectedType == IF schemaType # Undefined THEN schemaType
                           ELSE ExtractSchemaType(schema)
           metaKey == MetaKey(detectedType)
           existing == SortById({r \in pm : r.post_id = postId
                                            /\ r.meta_key = metaKey})
           found == Len(existing) > 0
       IN [threw |-> FALSE, success |-> TRUE, dryRun |-> TRUE,
           postId |-> postId, schemaType |-> detectedType,
           metaKey |-> metaKey,
           action |-> IF found THEN "UPDATE" ELSE "INSERT",
           existingMetaId |-> IF found THEN existing[1].meta_id ELSE 0,
           message |-> IF found THEN <<"Would UPDATE existing meta">>
                       ELSE <<"Would INSERT new meta row">>]

\* a preview that performs the INSERT it reports
PreviewInsertionWriting(c, postId, schema, schemaType) ==
  /\ now < MaxTime
  /\ LET r == PreviewInsertionResult(postmeta, postId, schema, schemaType)
     IN /\ result' = r
        /\ IF r.success /\ r.action = "INSERT"
           THEN /\ postmeta' = postmeta \cup
                      {Row(nextId, postId, r.metaKey,
                           PhpSerialize(ConvertToRankMathFormat(
                             schema, r.schemaType, FALSE, "s-0")))}
                /\ nextId' = nextId + 1
           ELSE UNCHANGED <<postmeta, nextId>>
  /\ stmts' = <<>>
  /\ call' = [NoCall EXCEPT !.op = "previewInsertion", !.client = c,
                            !.postId = postId,
                            !.rows = <<[schema |-> schema, type |-> schemaType]>>]
  /\ law' = NoLaw
  /\ now' = now + 1
  /\ before' = Snapshot
  /\ UNCHANGED <<backups, persisted, file>>
  /\ UNCHANGED ext

PreviewInsertion(c, postId, schema, schemaType) ==
  /\ now < MaxTime
  /\ result' = PreviewInsertionResult(postmeta, postId, schema, schemaType)
  /\ stmts' = <<>>
  /\ call' = [NoCall EXCEPT !.op = "previewInsertion", !.client = c,
                            !.postId = postId,
                            !.rows = <<[schema |-> schema, type |-> schemaType]>>]
  /\ law' = [NoLaw EXCEPT !.stage = 4, !.client = c, !.postId = postId,
                          !.args = <<schema, schemaType>>,
                          !.preview = PreviewInsertionResult(postmeta, postId,
                                                             schema, schemaType)]
  /\ now' = now + 1
  /\ before' = Snapshot
  /\ UNCHANGED <<postmeta, nextId, backups, persisted, file>>
  /\ UNCHANGED ext

\* ------------------------------------------------------------- execute
WriteSchemaAlwaysInsert(pm, nid, preview, postId, metaKey, metaValue, backup, err) ==
  IF err # NoError
  THEN [postmeta |-> pm, nextId |-> nid,
        stmts |-> <<Ev("INSERT", metaKey, err)>>,
        result |-> [threw |-> FALSE, success |-> FALSE, error |-> err,
                    canRollback |-> backup]]
  ELSE [postmeta |-> pm \cup {Row(nid, postId, metaKey, metaValue)},
        nextId |-> nid + 1,
        stmts |-> <<Ev("INSERT", metaKey, NoError)>>,
        result |-> [threw |-> FALSE, success |-> TRUE, action |-> "INSERT",
                    postId |-> postId, metaKey |-> metaKey,
                    schemaType |-> preview.schemaType, metaId |-> nid,
                    canRollback |-> backup]]
WriteSchemaGenericError(pm, nid, preview, postId, metaKey, metaValue, backup, err) ==
  IF err # NoError
  THEN [postmeta |-> pm, nextId |-> nid,
        stmts |-> <<Ev(preview.action, metaKey, err)>>,
        result |-> [threw |-> FALSE, success |-> FALSE,
                    error |-> "Database error", canRollback |-> backup]]
  ELSE IF preview.action = "UPDATE"
  THEN [postmeta |-> {IF r.post_id = postId /\ r.meta_key = metaKey
                      THEN [r EXCEPT !.meta_value = metaValue] ELSE r : r \in pm},
        nextId |-> nid,
        stmts |-> <<Ev("UPDATE", metaKey, NoError)>>,
        result |-> [threw |-> FALSE, success |-> TRUE, action |-> "UPDATE",
                    postId |-> postId, metaKey |-> metaKey,
                    schemaType |-> preview.schemaType,
                    metaId |-> preview.existingMetaId,
                    canRollback |-> backup]]
  ELSE [postmeta |-> pm \cup {Row(nid, postId, metaKey, metaValue)},
        nextId |-> nid + 1,
        stmts |-> <<Ev("INSERT", metaKey, NoError)>>,
        result |-> [threw |-> FALSE, success |-> TRUE, action |-> "INSERT",
                    postId |-> postId, metaKey |-> metaKey,
                    schemaType |-> preview.schemaType, metaId |-> nid,
                    canRollback |-> backup]]
\* The try block of insertSchema: one UPDATE or one INSERT, as the preview
\* decided; a rejected statement is caught and reported.
WriteSchema(pm, nid, preview, postId, metaKey, metaValue, backup, err) ==
  IF err # NoError
  THEN [postmeta |-> pm, nextId |-> nid,
        stmts |-> <<Ev(preview.action, metaKey, err)>>,
        result |-> [threw |-> FALSE, success |-> FALSE, error |-> err,
                    canRollback |-> backup]]
  ELSE IF preview.action = "UPDATE"
  THEN [postmeta |-> {IF r.post_id = postId /\ r.meta_key = metaKey
                      THEN [r EXCEPT !.meta_value = metaValue] ELSE r : r \in pm},
        nextId |-> nid,
        stmts |-> <<Ev("UPDATE", metaKey, NoError)>>,
        result |-> [threw |-> FALSE, success |-> TRUE, action |-> "UPDATE",
                    postId |-> postId, metaKey |-> metaKey,
                    schemaType |-> preview.schemaType,
                    metaId |-> preview.existingMetaId,
                    canRollback |-> backup]]
  ELSE [postmeta |-> pm \cup {Row(nid, postId, metaKey, metaValue)},
        nextId |-> nid + 1,
        stmts |-> <<Ev("INSERT", metaKey, NoError)>>,
        result |-> [threw |-> FALSE, success |-> TRUE, action |-> "INSERT",
                    postId |-> postId, metaKey |-> metaKey,
                    schemaType |-> preview.schemaType,
                    metaId |-> nid,
                    canRollback |-> backup]]

\* How a call is made and what the environment does to it: the option
\* values, the store's answer to the write (err) and the outcome of the
\* backup (bk).  Outcomes of steps the call never reaches are not varied,
\* and one call meets at most one fault.
Commits(m) == ~Default(m.dryRun, TRUE)
ExecModes ==
  {m \in [dryRun : DryRunOpts, backup : BackupOpts, isPrimary : PrimaryOpts,
          err : WriteOutcomes, bk : BackupOutcomes] :
     /\ ~Commits(m) => m.err = NoError /\ m.bk = "ok" /\ m.backup = Undefined
     /\ ~Default(m.backup, TRUE) => m.bk = "ok"
     /\ m.bk # "ok" => m.err = NoError}
\* A missing post answers every entity alike, and its backup every fault alike.
ExecInputs ==
  {x \in PostIds \X ExecEntities : x[1] \in ExistingPosts \/ x[2] = SvcA}
BackupInputs ==
  {x \in PostIds \X BackupOutcomes : x[1] \in ExistingPosts \/ x[2] = "ok"}

St(pm, nid, bmap, per, fc, ev, res) ==
  [postmeta |-> pm, nextId |-> nid, backups |-> bmap, persisted |-> per,
   file |-> fc, stmts |-> ev, result |-> res]

\* insertSchema as a function of the state st (the St fields) at time t.
\* { ...preview, message: '[DRY-RUN] ' + preview.message + ... }
DryRunResultAsInsert(preview) ==
  [preview EXCEPT !.action = "INSERT", !.existingMetaId = 0,
                  !.message = <<"[DRY-RUN] ">> \o preview.message
                                \o <<" - Pass { dryRun: false } to execute">>]
DryRunResult(preview) ==
  [preview EXCEPT !.message = <<"[DRY-RUN] ">> \o preview.message
                                \o <<" - Pass { dryRun: false } to execute">>]

InsertSchemaOp(st, t, postId, schema, schemaType, m, shortcode) ==
  LET dryRun == Default(m.dryRun, TRUE)
      backup == Default(m.backup, TRUE)
      isPrimary == Default(m.isPrimary, FALSE)
      detectedType == IF schemaType # Undefined THEN schemaType
                      ELSE ExtractSchemaType(schema)
      preview == PreviewInsertionResult(st.postmeta, postId, schema, detectedType)
  IN IF ~preview.success THEN [st EXCEPT !.result = preview]
     ELSE IF dryRun
     THEN [st EXCEPT !.result = DryRunResult(preview)]
     ELSE
       LET metaKey == MetaKey(detectedType)
           rankMathSchema ==
             ConvertToRankMathFormat(schema, detectedType, isPrimary, shortcode)
           metaValue == PhpSerialize(rankMathSchema)
           bo == IF backup
                 THEN BackupMetaOp(st.backups, st.persisted, st.file,
                                   st.postmeta, postId, t, m.bk)
                 ELSE [threw |-> FALSE, backups |-> st.backups,
                       persisted |-> st.persisted, file |-> st.file,
                       stmts |-> <<>>, backedUp |-> 0]
       IN IF bo.threw
          THEN [st EXCEPT !.stmts = st.stmts \o bo.stmts,
                          !.result = Thrown(ReadError)]
          ELSE LET w == WriteSchema(st.postmeta, st.nextId, preview, postId,
                                    metaKey, metaValue, backup, m.err)
               IN St(w.postmeta, w.nextId, bo.backups, bo.persisted, bo.file,
                     st.stmts \o bo.stmts \o w.stmts, w.result)

Apply(c, o) ==
  /\ postmeta' = o.postmeta
  /\ nextId' = o.nextId
  /\ backups' = [backups EXCEPT ![c] = o.backups]
  /\ persisted' = o.persisted
  /\ file' = o.file
  /\ stmts' = o.stmts
  /\ result' = o.result
  /\ now' = now + 1
  /\ before' = Snapshot
  /\ UNCHANGED ext

Here(c) == St(postmeta, nextId, backups[c], persisted, file, <<>>, result)

InsertSchema(c, postId, schema, schemaType, m, shortcode) ==
  /\ now < MaxTime
  /\ postId \notin ExistingPosts => ~Commits(m)
  /\ LET o == InsertSchemaOp(Here(c), now, postId, schema, schemaType, m, shortcode)
     IN /\ Apply(c, o)
        /\ law' = IF /\ law.stage = 1 /\ law.client = c /\ law.postId = postId
                      /\ Commits(m) /\ o.result.success
                   THEN [law EXCEPT !.stage = 2,
                                    !.rows = Pairs(SchemaRowsOf(postmeta, postId))]
                   ELSE IF /\ law.stage = 4 /\ law.client = c
                           /\ law.postId = postId
                           /\ law.args = <<schema, schemaType>>
                           /\ ~Commits(m)
                   THEN [law EXCEPT !.stage = 5]
                   ELSE NoLaw
  /\ call' = [NoCall EXCEPT !.op = "insertSchema", !.client = c,
                            !.postId = postId, !.dryRun = m.dryRun,
                            !.backup = Default(m.backup, TRUE),
                            !.rows = <<[schema |-> schema, type |-> schemaType]>>]

\* ---------------------------------------------------------- multi-row
\* A loop that gives up at the first row the store rejects.
RECURSIVE InsertRowsStopAtFailure(_, _, _, _, _, _, _, _, _)
InsertRowsStopAtFailure(st, t, postId, schemas, i, dryRun, rejected, err, shortcode) ==
  IF i > Len(schemas) THEN [st |-> st, results |-> <<>>]
  ELSE LET m == [dryRun |-> IF dryRun THEN "true" ELSE "false",
                 backup |-> "false",
                 isPrimary |-> IF i = 1 THEN "true" ELSE "false",
                 err |-> IF i \in rejected THEN err ELSE NoError,
                 bk |-> "ok"]
           o == InsertSchemaOp(st, t, postId, schemas[i].schema,
                               schemas[i].type, m, shortcode)
           rest == IF o.result.success
                   THEN InsertRowsStopAtFailure(o, t, postId, schemas, i + 1,
                                                dryRun, rejected, err, shortcode)
                   ELSE [st |-> o, results |-> <<>>]
       IN [st |-> rest.st, results |-> <<o.result>> \o rest.results]
\* The loop of insertMultipleSchemas from row i on: insertSchema for every
\* row, backup off, the first row primary; `rejected` are the rows whose
\* statement the store rejects with `err`.
RECURSIVE InsertRows(_, _, _, _, _, _, _, _, _)
InsertRows(st, t, postId, schemas, i, dryRun, rejected, err, shortcode) ==
  IF i > Len(schemas) THEN [st |-> st, results |-> <<>>]
  ELSE LET m == [dryRun |-> IF dryRun THEN "true" ELSE "false",
                 backup |-> "false",
                 isPrimary |-> IF i = 1 THEN "true" ELSE "false",
                 err |-> IF i \in rejected THEN err ELSE NoError,
                 bk |-> "ok"]
           o == InsertSchemaOp(st, t, postId, schemas[i].schema,
                               schemas[i].type, m, shortcode)
           rest == InsertRows(o, t, postId, schemas, i + 1, dryRun, rejected,
                              err, shortcode)
       IN [st |-> rest.st, results |-> <<o.result>> \o rest.results]

\* m: the option values (dryRun, backup), the backup outcome (bk), the
\* rejected rows and the store's message.
InsertMultipleSchemasOp(st, t, postId, schemas, m, shortcode) ==
  LET dryRun == Default(m.dryRun, TRUE)
      backup == Default(m.backup, TRUE)
      bo == IF backup /\ ~dryRun
            THEN BackupMetaOp(st.backups, st.persisted, st.file, st.postmeta,
                              postId, t, m.bk)
            ELSE [threw |-> FALSE, backups |-> st.backups,
                  persisted |-> st.persisted, file |-> st.file,
                  stmts |-> <<>>, backedUp |-> 0]
  IN IF bo.threw
     THEN [st EXCEPT !.stmts = st.stmts \o bo.stmts, !.result = Thrown(ReadError)]
     ELSE LET st1 == St(st.postmeta, st.nextId, bo.backups, bo.persisted,
                        bo.file, st.stmts \o bo.stmts, st.result)
              r == InsertRows(st1, t, postId, schemas, 1, dryRun, m.rejected,
                              m.err, shortcode)
          IN [r.st EXCEPT !.result =
                [threw |-> FALSE,
                 success |-> \A k \in 1..Len(r.results) : r.results[k].success,
                 results |-> r.results,
                 canRollback |-> backup /\ ~dryRun]]

\* The forEach of insertFromGraph: skip thin reference-only entities, collect
\* the rest, move primaryIndex (0-based in the source, 1-based here).
ReferenceOnlyTypes == {"WebSite", "Organization", "Place", "ImageObject"}
PreferredPrimaryTypes == {"Service", "Article", "Product"}
RECURSIVE SplitGraph(_, _, _, _, _)
SplitGraph(graph, i, primaryType, schemas, primaryIndex) ==
  IF i > Len(graph) THEN [schemas |-> schemas, primaryIndex |-> primaryIndex]
  ELSE LET item == graph[i]
           type == ExtractSchemaType(item)
       IN IF type \in ReferenceOnlyTypes /\ item.nkeys <= 3
          THEN SplitGraph(graph, i + 1, primaryType, schemas, primaryIndex)
          ELSE LET pushed == Append(schemas, [schema |-> item, type |-> type])
                   idx == IF primaryType # Undefined /\ type = primaryType
                          THEN Len(pushed)
                          ELSE IF primaryType = Undefined
                                  /\ type \in PreferredPrimaryTypes
                          THEN Len(pushed)
                          ELSE primaryIndex
               IN SplitGraph(graph, i + 1, primaryType, pushed, idx)

\* schemas.splice(primaryIndex, 1) and unshift
PrimaryFirst(schemas, primaryIndex) ==
  IF primaryIndex > 1
  THEN <<schemas[primaryIndex]>>
       \o SubSeq(schemas, 1, primaryIndex - 1)
       \o SubSeq(schemas, primaryIndex + 1, Len(schemas))
  ELSE schemas

\* the rows insertFromGraph hands to insertMultipleSchemas
GraphRows(graph, primaryType) ==
  LET sp == SplitGraph(graph, 1, primaryType, <<>>, 1)
  IN PrimaryFirst(sp.schemas, sp.primaryIndex)

InsertFromGraphOp(st, t, postId, hasGraph, graph, primaryType, m, shortcode) ==
  IF ~hasGraph
  THEN [st EXCEPT !.result = [threw |-> FALSE, success |-> FALSE,
                              error |-> "Schema does not contain @graph array"]]
  ELSE InsertMultipleSchemasOp(st, t, postId, GraphRows(graph, primaryType),
                               m, shortcode)

\* Options and environment of a multi-row call.  Outcomes of steps the call
\* never reaches are not varied.
GraphBackupOutcomes == {"ok", "read_fail"}
BatchModes(postId, rows) ==
  {m \in [dryRun : DryRunOpts, backup : BackupOpts, bk : GraphBackupOutcomes,
          rejected : SUBSET (1..Len(rows)), err : StoreErrors] :
     /\ ~Commits(m) => m.bk = "ok" /\ m.rejected = {} /\ m.backup = Undefined
     /\ ~Default(m.backup, TRUE) => m.bk = "ok"
     /\ m.bk = "read_fail" => m.rejected = {}
     /\ postId \notin ExistingPosts => m.rejected = {}}

AsRows(graph) == [i \in 1..Len(graph) |-> [schema |-> graph[i], type |-> Undefined]]

InsertMultipleSchemas(c, postId, schemas, shortcode) ==
  /\ now < MaxBatchCalls
  /\ \E m \in BatchModes(postId, schemas) :
       /\ Apply(c, InsertMultipleSchemasOp(Here(c), now, postId, schemas, m,
                                           shortcode))
       /\ call' = [NoCall EXCEPT !.op = "insertMultipleSchemas", !.client = c,
                                 !.postId = postId, !.dryRun = m.dryRun,
                                 !.backup = Default(m.backup, TRUE),
                                 !.rows = schemas, !.rejected = m.rejected]
  /\ law' = NoLaw

InsertFromGraph(c, postId, hasGraph, graph, primaryType, shortcode) ==
  /\ now < MaxBatchCalls
  /\ \E m \in BatchModes(postId, IF hasGraph THEN GraphRows(graph, primaryType)
                                 ELSE <<>>) :
       /\ Apply(c, InsertFromGraphOp(Here(c), now, postId, hasGraph, graph,
                                     primaryType, m, shortcode))
       /\ call' = [NoCall EXCEPT !.op = "insertFromGraph", !.client = c,
                                 !.postId = postId, !.dryRun = m.dryRun,
                                 !.backup = Default(m.backup, TRUE),
                                 !.hasGraph = hasGraph, !.graph = graph,
                                 !.primaryType = primaryType,
                                 !.rows = IF hasGraph
                                          THEN GraphRows(graph, primaryType)
                                          ELSE <<>>,
                                 !.rejected = m.rejected]
  /\ law' = NoLaw

\* ------------------------------------------------------------ rollback
\* rollback: the client's own backup, else the index; DELETE every schema
\* row of the post, then INSERT the backed-up schema rows one by one.  It has
\* no try/catch: the first rejected statement ends the call (failAt = 0 is
\* the DELETE, k the k-th INSERT, beyond the last INSERT none).
FindBackupOrEmpty(bmap, per, postId) ==
  IF postId \in DOMAIN bmap THEN bmap[postId]
  ELSE IF postId \in DOMAIN per THEN per[postId]
  ELSE [timestamp |-> 0, schemas |-> <<>>]
FindBackup(bmap, per, postId) ==
  IF postId \in DOMAIN bmap THEN bmap[postId] ELSE LoadBackupFromFile(per, postId)

RestorableOf(backup) ==
  SelectSeq(backup.schemas, LAMBDA meta : StartsWithSchema(meta.key))

RollbackOp(st, postId, failAt, err) ==
  LET backup == FindBackup(st.backups, st.persisted, postId)
  IN IF backup = NoBackup
     THEN [st EXCEPT !.result = [threw |-> FALSE, success |-> FALSE,
                                 error |-> "No backup found for post ID"]]
     ELSE IF failAt = 0
     THEN [st EXCEPT !.stmts = <<Ev("DELETE", NoKey, err)>>,
                     !.result = Thrown(err)]
     ELSE
       LET restore == RestorableOf(backup)
           n == Len(restore)
           done == IF failAt > n THEN n ELSE failAt - 1
           kept == {r \in st.postmeta :
                      ~(r.post_id = postId /\ LikeRankMathSchema(r.meta_key))}
           added == {Row(st.nextId + i - 1, postId, restore[i].key,
                         restore[i].value) : i \in 1..done}
           ev == <<Ev("DELETE", NoKey, NoError)>>
                 \o [i \in 1..done |-> Ev("INSERT", restore[i].key, NoError)]
                 \o (IF failAt <= n
                     THEN <<Ev("INSERT", restore[failAt].key, err)>>
                     ELSE <<>>)
       IN St(kept \cup added, st.nextId + done, st.backups, st.persisted,
             st.file, ev,
             IF failAt <= n THEN Thrown(err)
             ELSE [threw |-> FALSE, success |-> TRUE, postId |-> postId,
                   restored |-> n, backupTimestamp |-> backup.timestamp])

Rollback(c, postId) ==
  /\ now < MaxTime
  /\ LET backup == FindBackup(backups[c], persisted, postId)
         n == IF backup = NoBackup THEN 0 ELSE Len(RestorableOf(backup))
         first == IF backup = NoBackup THEN 1 ELSE 0
     IN \E failAt \in first..(n + 1), err \in StoreErrors :
          LET o == RollbackOp(Here(c), postId, failAt, err)
          IN /\ Apply(c, o)
             /\ law' = IF /\ law.stage = 2 /\ law.client = c
                           /\ law.postId = postId /\ o.result.success
                        THEN [law EXCEPT !.stage = 3] ELSE NoLaw
  /\ call' = [NoCall EXCEPT !.op = "rollback", !.client = c, !.postId = postId]

\* ------------------------------------------------------------- restart
\* A new process: every client's Map is new and empty, persistedBackups is
\* read from the backups file.
Restart ==
  /\ now < MaxTime
  /\ backups' = [c \in Clients |-> EmptyMap]
  /\ persisted' = file
  /\ stmts' = <<>>
  /\ result' = [threw |-> FALSE, success |-> TRUE]
  /\ call' = [NoCall EXCEPT !.op = "restart"]
  /\ law' = NoLaw
  /\ now' = now + 1
  /\ before' = Snapshot
  /\ UNCHANGED <<postmeta, nextId, file>>
  /\ UNCHANGED ext

\* ------------------------------------------------- calls in flight
\* Two committed insertSchema calls on one record with entities of one type,
\* made through the same client.  A call gives way at each await: after the
\* lookup of previewInsertion, after the backup, after its statement.
Procs == {1, 2}
SvcRace == <<SvcA, SvcB>>
FaqRace == <<FaqA, Entity(<<"FAQPage">>, 3, "faq-B")>>
RacePairs == {SvcRace, FaqRace}
RaceShortcode(i) == IF i = 1 THEN "s-1a2b" ELSE "s-3c4d"
RaceValue(i) ==
  PhpSerialize(ConvertToRankMathFormat(race.ent[i], ExtractSchemaType(race.ent[i]),
                                       FALSE, RaceShortcode(i)))
RaceKey == MetaKey(ExtractSchemaType(race.ent[1]))

InitRace ==
  /\ InitStore
  /\ \E p \in ExistingPosts, e \in RacePairs, b \in BOOLEAN :
       race = [post |-> p, backup |-> b, ent |-> e,
               pc |-> [i \in Procs |-> "lookup"],
               preview |-> [i \in Procs |-> [success |-> FALSE]],
               result |-> [i \in Procs |-> [success |-> FALSE]]]
  /\ page = NoPage
  /\ det = NoDet
  /\ job = NoJob
  /\ NetIdle

\* insertSchema up to the end of previewInsertion (477)
RaceLookup(i) ==
  /\ race.pc[i] = "lookup"
  /\ race' = [race EXCEPT
       !.preview[i] = PreviewInsertionResult(postmeta, race.post, race.ent[i],
                                             ExtractSchemaType(race.ent[i])),
       !.pc[i] = IF race.backup THEN "backup" ELSE "write"]
  /\ UNCHANGED <<postmeta, nextId, backups, persisted, file, now, call, stmts,
                 result, before, law, page, det, job, net>>

\* await this.backupMeta(postId) (498-500)
RaceBackup(i, c) ==
  /\ race.pc[i] = "backup"
  /\ LET o == BackupMetaOp(backups[c], persisted, file, postmeta, race.post,
                           now, "ok")
     IN /\ backups' = [backups EXCEPT ![c] = o.backups]
        /\ persisted' = o.persisted
        /\ file' = o.file
  /\ race' = [race EXCEPT !.pc[i] = "write"]
  /\ now' = now + 1
  /\ UNCHANGED <<postmeta, nextId, call, stmts, result, before, law, page, det,
                 job, net>>

\* the UPDATE or INSERT the lookup decided on, and the return (502-547)
RaceWrite(i, err) ==
  /\ race.pc[i] = "write"
  /\ LET w == WriteSchema(postmeta, nextId, race.preview[i], race.post, RaceKey,
                          RaceValue(i), race.backup, err)
     IN /\ postmeta' = w.postmeta
        /\ nextId' = w.nextId
        /\ stmts' = stmts \o w.stmts
        /\ race' = [race EXCEPT !.result[i] = w.result, !.pc[i] = "done"]
  /\ UNCHANGED <<backups, persisted, file, now, call, result, before, law, page,
                 det, job, net>>

NextRace ==
  \/ \E i \in Procs : RaceLookup(i)
  \/ \E i \in Procs, c \in Callers : RaceBackup(i, c)
  \/ \E i \in Procs, err \in WriteOutcomes : RaceWrite(i, err)

SpecRace == InitRace /\ [][NextRace]_vars

Next ==
  \/ \E c \in Callers, x \in ExecInputs :
       PreviewInsertion(c, x[1], x[2], Undefined)
  \/ \E c \in Callers, x \in BackupInputs : BackupMeta(c, x[1], x[2])
  \/ \E c \in Callers, x \in ExecInputs, m \in ExecModes, sc \in Shortcodes :
       InsertSchema(c, x[1], x[2], Undefined, m, sc)
  \/ \E c \in Callers, p \in PostIds : Rollback(c, p)
  \/ Restart

Spec == Init /\ [][Next]_vars

\* The multi-row calls, on every store Init allows.
NextGraph ==
  \/ \E c \in Callers, p \in PostIds, g \in Graphs, sc \in Shortcodes :
       InsertMultipleSchemas(c, p, AsRows(g), sc)
  \/ \E c \in Callers, p \in PostIds, g \in Graphs, pt \in PrimaryTypeOpts,
        sc \in Shortcodes :
       InsertFromGraph(c, p, TRUE, g, pt, sc)
  \/ \E c \in Callers, p \in PostIds, sc \in Shortcodes :
       InsertFromGraph(c, p, FALSE, <<>>, Undefined, sc)

SpecGraph == Init /\ [][NextGraph]_vars

\* Calls made through either of two clients of the same host and database:
\* each has its own backups Map, both write one storage key of the index.
SharedModes == {m \in ExecModes : Commits(m) /\ m.bk = "ok" /\ m.err = NoError}
NextShared ==
  \/ \E c \in Clients, p \in ExistingPosts : BackupMeta(c, p, "ok")
  \/ \E c \in Clients, p \in ExistingPosts, m \in SharedModes, sc \in Shortcodes :
       InsertSchema(c, p, SvcA, Undefined, m, sc)
  \/ \E c \in Clients, p \in ExistingPosts : Rollback(c, p)

SpecShared == Init /\ [][NextShared]_vars

\* ---------------------------------------------------------- validation
\* validate(schema): the errors (severity required) of a graph.  A type
\* given as an array equals none of the strings validate compares it with.
EntityErrors(e) ==
  IF e.type = <<>> THEN {<<"", "@type">>}
  ELSE IF Len(e.type) > 1 THEN {}
  ELSE {<<e.type[1], f>> : f \in RequiredOf(e.type[1]) \ e.has}
Validate(hasContext, graph) ==
  LET errors == (IF hasContext THEN {} ELSE {<<"", "@context">>})
                \cup UNION {EntityErrors(graph[i]) : i \in 1..Len(graph)}
  IN [valid |-> errors = {}, errors |-> errors, schemaCount |-> Len(graph)]

\* Graphs as generate() returns them (with @context), one of which lacks a
\* required field, handed to insertFromGraph as processDbBulk does.
SvcNoName == Without(SvcA, "name")
ArtNoHeadline == Without(ArtA, "headline")
ValidatedGraphs ==
  { <<SvcA, FaqA>>, <<SvcNoName, FaqA>>, <<ArtNoHeadline>>, <<ArtA>>,
    <<Entity(<<>>, 2, "untyped")>> }
NextValidated ==
  \E c \in Callers, p \in PostIds, g \in ValidatedGraphs, sc \in Shortcodes :
    InsertFromGraph(c, p, TRUE, g, Undefined, sc)

SpecValidated == Init /\ [][NextValidated]_vars

\* ------------------------------------------------------------ composer
\* generate(pageType, pageData, orgInfo, options) and the builders it calls,
\* as far as identities, nested objects and addresses go.  An address is the
\* set of its parts that hold a non-empty value (the country, always set,
\* and a region detected from city tables are left out).
PageTypes == {"location", "service", "article"}
NoAddress == [present |-> FALSE, filled |-> {}]
Addr(filled) == [present |-> TRUE, filled |-> filled]
\* a nested object: the field holding it, its @id ("" without one), its keys
Obj(field, id, keys, address) ==
  [field |-> field, id |-> id, keys |-> keys, address |-> address]
Node(type, id, address, nested) ==
  [type |-> type, id |-> id, address |-> address, nested |-> nested]

\* options.address (the parts given), options.areaServed (split, trimmed,
\* empty parts dropped), extractLocationFromPage(pageData),
\* pageData.serviceAreas, orgInfo.name, extractLocation(pageData).city
AddressOpts ==
  { {}, {"streetAddress"}, {"addressLocality"},
    {"streetAddress", "addressLocality", "postalCode"} }
AreaOpts == { <<>>, <<"Houston">> }
ComposerInputs ==
  [pageType : PageTypes, address : AddressOpts, areaServed : AreaOpts,
   extracted : {"", "Austin"}, serviceAreas : {<<>>, <<"Austin">>},
   orgName : {"Acme Air", "Organization"}, city : {"", "Plano"},
   featuredImage : BOOLEAN, faqs : BOOLEAN, crumbs : BOOLEAN]

\* service builder: the address of the provider
ServiceProviderAddress(in) ==
  LET areaServedArray ==
        IF in.areaServed # <<>> THEN in.areaServed
        ELSE IF in.extracted # "" THEN <<in.extracted>> ELSE <<>>
  IN IF "addressLocality" \in in.address THEN Addr(in.address)
     ELSE IF areaServedArray # <<>> THEN Addr({"addressLocality"})
     ELSE Addr({})

ServiceBuilder(in) ==
  LET areas == in.areaServed # <<>> \/ in.extracted # ""
      provider ==
        Obj("provider", "org#localbusiness",
            {"@type", "@id", "name", "url", "address"}
              \cup (IF areas THEN {"areaServed"} ELSE {}),
            ServiceProviderAddress(in))
      image == IF in.featuredImage
               THEN {Obj("image", "", {"@type", "url"}, NoAddress)} ELSE {}
  IN Node("Service", "page#service", NoAddress, {provider} \cup image)

\* local business builder: the address of the business
BusinessAddress(in) ==
  LET allAreas == IF in.serviceAreas # <<>> THEN in.serviceAreas
                  ELSE in.areaServed
  IN IF in.address \cap {"streetAddress", "addressLocality"} # {}
     THEN Addr(in.address)
     ELSE IF allAreas # <<>> THEN Addr({"addressLocality"})
     ELSE IF in.orgName # "" /\ in.orgName # "Organization"
     THEN Addr({"addressLocality"})
     ELSE Addr({})

LocalBusinessBuilder(in) ==
  Node("HVACBusiness", "org#localbusiness", BusinessAddress(in), {})

\* location builder: Service, business and Place; locationName is the city,
\* else options.areaServed, else 'Service Area'
LocationBuilder(in) ==
  LET image == IF in.featuredImage
               THEN {Obj("image", "", {"@type", "url"}, NoAddress)} ELSE {}
  IN << Node("Service", "page#service", NoAddress,
             {Obj("provider", "org#localbusiness", {"@type", "@id"}, NoAddress)}
               \cup image),
        Node("HVACBusiness", "org#localbusiness", Addr({"addressLocality"}), {}),
        Node("Place", "page#place", Addr({"addressLocality"}), {}) >>

ArticleBuilder(in) ==
  Node("Article", "page#article", NoAddress,
       { Obj("mainEntityOfPage", "page/#webpage", {"@id"}, NoAddress),
         Obj("author", "", {"@type", "name"}, NoAddress),
         Obj("publisher", "", {"@type", "name"}, NoAddress) })

Generate(in) ==
  LET primary == IF in.pageType = "location" THEN LocationBuilder(in)
                 ELSE IF in.pageType = "service"
                 THEN <<ServiceBuilder(in), LocalBusinessBuilder(in)>>
                 ELSE <<ArticleBuilder(in)>>
      faq == IF in.faqs THEN <<Node("FAQPage", "", NoAddress, {})>> ELSE <<>>
      crumbs == IF in.crumbs
                THEN <<Node("BreadcrumbList", "", NoAddress, {})>> ELSE <<>>
      image == IF in.featuredImage
               THEN <<Node("ImageObject", "page/#primaryimage", NoAddress, {})>>
               ELSE <<>>
      webPage ==
        Node("WebPage", "page/#webpage", NoAddress,
             {Obj("isPartOf", "org#website", {"@type", "@id", "name", "url"},
                  NoAddress)}
               \cup (IF in.featuredImage
                     THEN {Obj("primaryImageOfPage", "page/#primaryimage",
                               {"@id"}, NoAddress)}
                     ELSE {}))
  IN primary \o faq \o crumbs \o image \o <<webPage>>

InitCompose ==
  /\ InitIdle
  /\ \E in \in ComposerInputs : page = [NoPage EXCEPT !.in = in]
  /\ det = NoDet
  /\ job = NoJob
  /\ NetIdle

Compose ==
  /\ ~page.done
  /\ page' = [page EXCEPT !.done = TRUE, !.graph = Generate(page.in)]
  /\ UNCHANGED <<postmeta, nextId, backups, persisted, file, now, call, stmts,
                 result, before, law, race, det, job, net>>

SpecCompose == InitCompose /\ [][Compose]_vars

\* ---------------------------------------------------------- classifier
\* detect(url, pageData).  The signals of a page: which URL pattern
\* families match, the WordPress post type ("none": no wordpressInfo), which
\* of author, publishDate, categories, tags are present, how many
\* SERVICE_KEYWORDS the text contains, how many headings carry a service, an
\* article and a location hint, how many location phrases match.
B2N(b) == IF b THEN 1 ELSE 0
Signals ==
  [blogUrl : BOOLEAN, serviceUrl : BOOLEAN, locationUrl : BOOLEAN,
   postType : {"none", "post", "page", "unknown"},
   author : BOOLEAN, publishDate : BOOLEAN, categories : BOOLEAN,
   tags : BOOLEAN, keywordHits : 0..MaxKeywordHits,
   serviceHeadings : 0..MaxHeadingHits, articleHeadings : 0..MaxHeadingHits,
   locationHeadings : 0..MaxHeadingHits, locationPhrases : 0..MaxPhraseHits]

Scores(in) ==
  [article |-> 3 * B2N(in.blogUrl) + 3 * B2N(in.postType = "post")
               + 2 * B2N(in.author) + 2 * B2N(in.publishDate)
               + 2 * B2N(in.categories) + B2N(in.tags)
               + 2 * in.articleHeadings,
   service |-> 3 * B2N(in.serviceUrl) + B2N(in.postType = "page")
               + in.keywordHits + 2 * in.serviceHeadings
               + B2N(~in.publishDate),
   location |-> 4 * B2N(in.locationUrl) + 2 * in.locationHeadings
                + 2 * in.locationPhrases + B2N(~in.publishDate)]

Max3(a, b, c) ==
  IF a >= b /\ a >= c THEN a ELSE IF b >= c THEN b ELSE c

\* a winner chosen without the floor
DetermineWinnerNoFloor(scores) ==
  IF scores.location >= Max3(scores.article, scores.service, scores.location)
  THEN "location"
  ELSE IF scores.service > scores.article THEN "service" ELSE "article"
DetermineWinner(scores) ==
  LET maxScore == Max3(scores.article, scores.service, scores.location)
  IN IF scores.location >= maxScore /\ scores.location >= LocationFloor
     THEN "location"
     ELSE IF scores.service > scores.article THEN "service" ELSE "article"

InitDetect ==
  /\ InitIdle
  /\ page = NoPage
  /\ \E in \in Signals : det = [NoDet EXCEPT !.in = in]
  /\ job = NoJob
  /\ NetIdle

Detect ==
  /\ ~det.done
  /\ det' = [det EXCEPT !.done = TRUE, !.scores = Scores(det.in),
                        !.out = DetermineWinner(Scores(det.in))]
  /\ UNCHANGED <<postmeta, nextId, backups, persisted, file, now, call, stmts,
                 result, before, law, race, page, job, net>>

SpecDetect == InitDetect /\ [][Detect]_vars

\* --------------------------------------------------------------- batch
\* processDbBulk: one iteration of `for (const url of options.urls)` per
\* step.  What happens to a URL: scrape (or detect, generate, new URL) throws,
\* the path has no slug, the slug lookup throws, no post has the slug, or the
\* graph is handed to insertFromGraph with { dryRun: false, backup: true }.
UrlFailures == {"scrape_failed", "no_slug", "lookup_failed", "post_not_found"}
ThrownFailures == {"scrape_failed", "lookup_failed"}
BulkGraphs == { <<SvcA, FaqA>>, <<ArtA>> }
BulkModes(rows) ==
  {m \in [dryRun : {"false"}, backup : {"true"}, bk : GraphBackupOutcomes,
          rejected : SUBSET (1..Len(rows)), err : StoreErrors] :
     m.bk = "read_fail" => m.rejected = {}}

ErrorOf(o, res) ==
  IF o = "no_slug" THEN "Could not extract slug"
  ELSE IF o = "post_not_found" THEN "Post not found for slug"
  ELSE IF o = "inserted" THEN res.error
  ELSE o

\* An iteration whose thrown error reaches the outer catch.
ProcessUrlAbortOnThrow(j, url, o, res) ==
  IF o \in ThrownFailures \/ (o = "inserted" /\ res.threw)
  THEN [j EXCEPT !.status = "error"]
  ELSE LET j1 == IF o \in UrlFailures
                 THEN [j EXCEPT !.errors =
                         Append(@, [url |-> url, error |-> ErrorOf(o, res)])]
                 ELSE [j EXCEPT !.results =
                         Append(@, [url |-> url, success |-> res.success])]
           j2 == [j1 EXCEPT !.processed = @ + 1]
       IN IF url = j.n THEN [j2 EXCEPT !.status = "completed"] ELSE j2
\* An iteration whose early exits (no slug, no post) count the URL and then
\* fall through to the count at the end of the loop body.
ProcessUrlCountsExitTwice(j, url, o, res) ==
  LET caught == o \in ThrownFailures \/ (o = "inserted" /\ res.threw)
      j1 == IF o \in UrlFailures \/ caught
            THEN [j EXCEPT !.errors =
                    Append(@, [url |-> url, error |-> ErrorOf(o, res)])]
            ELSE [j EXCEPT !.results =
                    Append(@, [url |-> url, success |-> res.success])]
      j2 == [j1 EXCEPT !.processed =
               IF o \in {"no_slug", "post_not_found"} THEN @ + 2 ELSE @ + 1]
  IN IF url = j.n THEN [j2 EXCEPT !.status = "completed"] ELSE j2
\* The body of the loop for the url-th URL, and `job.status = 'completed'`
\* after the last one.
ProcessUrl(j, url, o, res) ==
  LET caught == o \in ThrownFailures \/ (o = "inserted" /\ res.threw)
      j1 == IF o \in UrlFailures \/ caught
            THEN [j EXCEPT !.errors =
                    Append(@, [url |-> url, error |-> ErrorOf(o, res)])]
            ELSE [j EXCEPT !.results =
                    Append(@, [url |-> url, success |-> res.success])]
      j2 == [j1 EXCEPT !.processed = @ + 1]
  IN IF url = j.n THEN [j2 EXCEPT !.status = "completed"] ELSE j2

InitBulk ==
  /\ InitIdle
  /\ page = NoPage
  /\ det = NoDet
  /\ \E n \in 1..MaxUrls : job = [NoJob EXCEPT !.n = n, !.status = "running"]
  /\ NetIdle

\* the next URL of the job: those before it have an entry in outcomes
NextUrl == Len(job.outcomes) + 1

UrlFails(o) ==
  /\ job.status = "running"
  /\ NextUrl <= job.n
  /\ job' = [ProcessUrl(job, NextUrl, o, Thrown(o)) EXCEPT
               !.outcomes = Append(job.outcomes, [kind |-> o, failed |-> TRUE])]
  /\ UNCHANGED <<postmeta, nextId, backups, persisted, file, now, call, stmts,
                 result, before, law, race, page, det, net>>

\* what an insertFromGraph that ended with o leaves in the store and the job
ApplyToJob(c, o) ==
  /\ postmeta' = o.postmeta
  /\ nextId' = o.nextId
  /\ backups' = [backups EXCEPT ![c] = o.backups]
  /\ persisted' = o.persisted
  /\ file' = o.file
  /\ stmts' = o.stmts
  /\ result' = o.result
  /\ job' = [ProcessUrl(job, NextUrl, "inserted", o.result) EXCEPT
               !.outcomes = Append(job.outcomes,
                                   [kind |-> "inserted",
                                    failed |-> o.result.threw])]

UrlInserts(c, postId, graph, m, shortcode) ==
  /\ job.status = "running"
  /\ NextUrl <= job.n
  /\ ApplyToJob(c, InsertFromGraphOp(Here(c), now, postId, TRUE, graph,
                                     Undefined, m, shortcode))
  /\ now' = now + 1
  /\ before' = Snapshot
  /\ call' = [NoCall EXCEPT !.op = "insertFromGraph", !.client = c,
                            !.postId = postId, !.dryRun = m.dryRun,
                            !.backup = TRUE, !.hasGraph = TRUE,
                            !.graph = graph,
                            !.rows = GraphRows(graph, Undefined),
                            !.rejected = m.rejected]
  /\ law' = NoLaw
  /\ UNCHANGED <<race, page, det, net>>

NextBulk ==
  \/ \E o \in UrlFailures : UrlFails(o)
  \/ \E c \in Callers, p \in ExistingPosts, g \in BulkGraphs,
        sc \in Shortcodes :
       \E m \in BulkModes(GraphRows(g, Undefined)) : UrlInserts(c, p, g, m, sc)

SpecBulk == InitBulk /\ [][NextBulk]_vars

\* ------------------------------------------------------------- fetches
\* fetchWithRetry (page scraper) and the request loop of parse (sitemap
\* parser).  An attempt ends with a response below 400, a 4xx or 5xx
\* response, or an error code of the network layer.
AttemptOutcomes ==
  {"ok", "http_4xx", "http_5xx", "ENOTFOUND", "ECONNREFUSED", "ECONNRESET",
   "ETIMEDOUT"}
Fetchers == {"fetchWithRetry", "parse"}
Attempt(outcome) == [outcome |-> outcome, timeout |-> RequestTimeout]

\* one pass through the for loop of fetchWithRetry
FetchWithRetryStep(f, outcome) ==
  LET attempt == Len(f.log) + 1
      f1 == [f EXCEPT !.log = Append(@, Attempt(outcome))]
  IN IF outcome = "ok" THEN [f1 EXCEPT !.status = "returned"]
     ELSE IF outcome \in {"ENOTFOUND", "ECONNREFUSED"}
     THEN [f1 EXCEPT !.status = "threw"]
     ELSE IF outcome = "http_4xx" THEN [f1 EXCEPT !.status = "threw"]
     ELSE IF attempt < DefaultMaxRetries THEN f1
     ELSE [f1 EXCEPT !.status = "threw"]

\* one pass through the for loop of parse
ParseFetchStep(f, outcome) ==
  LET attempt == Len(f.log) + 1
      f1 == [f EXCEPT !.log = Append(@, Attempt(outcome))]
  IN IF outcome = "ok" THEN [f1 EXCEPT !.status = "returned"]
     ELSE IF attempt = SitemapAttempts THEN [f1 EXCEPT !.status = "threw"]
     ELSE f1

InitFetch ==
  /\ InitIdle
  /\ page = NoPage
  /\ det = NoDet
  /\ job = NoJob
  /\ \E by \in Fetchers : fetch = [NoFetch EXCEPT !.by = by, !.status = "running"]
  /\ limiter = NoLimiter
  /\ geo = NoGeo
  /\ svcType = NoSvcType
  /\ repair = NoRepair

PageAttempt(outcome) ==
  /\ fetch.by = "fetchWithRetry"
  /\ fetch.status = "running"
  /\ fetch' = FetchWithRetryStep(fetch, outcome)
  /\ UNCHANGED <<postmeta, nextId, backups, persisted, file, now, call, stmts,
                 result, before, law, race, page, det, job, limiter, geo,
                 svcType, repair>>

SitemapAttempt(outcome) ==
  /\ fetch.by = "parse"
  /\ fetch.status = "running"
  /\ fetch' = ParseFetchStep(fetch, outcome)
  /\ UNCHANGED <<postmeta, nextId, backups, persisted, file, now, call, stmts,
                 result, before, law, race, page, det, job, limiter, geo,
                 svcType, repair>>

NextFetch ==
  \/ \E o \in AttemptOutcomes : PageAttempt(o)
  \/ \E o \in AttemptOutcomes : SitemapAttempt(o)

SpecFetch == InitFetch /\ [][NextFetch]_vars

\* -------------------------------------------------------- rate limiting
\* The direct-fetch part of fetchHtml, for calls in progress at the same
\* time.  A call runs without interruption up to its first await: either the
\* delay, or the request of fetchWithRetry.  The clock counts ms in steps of
\* 500 and starts late enough for the first call to find
\* now - lastRequestTime >= MIN_REQUEST_INTERVAL, as it does with Date.now().
FetchCalls == {1, 2, 3}
InitLimiter ==
  /\ InitIdle
  /\ page = NoPage
  /\ det = NoDet
  /\ job = NoJob
  /\ fetch = NoFetch
  /\ geo = NoGeo
  /\ svcType = NoSvcType
  /\ repair = NoRepair
  /\ limiter = [clock |-> MIN_REQUEST_INTERVAL, lastRequestTime |-> 0,
                pc |-> [p \in FetchCalls |-> "idle"],
                wake |-> [p \in FetchCalls |-> 0],
                started |-> [p \in FetchCalls |-> 0]]

LimiterFrame ==
  UNCHANGED <<postmeta, nextId, backups, persisted, file, now, call, stmts,
              result, before, law, race, page, det, job, fetch, geo,
              svcType, repair>>

\* fetchHtml up to its first await
EnterFetchHtml(p) ==
  /\ limiter.pc[p] = "idle"
  /\ LET timeSinceLastRequest == limiter.clock - limiter.lastRequestTime
     IN limiter' =
          IF timeSinceLastRequest < MIN_REQUEST_INTERVAL
          THEN [limiter EXCEPT
                  !.pc[p] = "delayed",
                  !.wake[p] = limiter.clock
                              + (MIN_REQUEST_INTERVAL - timeSinceLastRequest)]
          ELSE [limiter EXCEPT !.pc[p] = "requested",
                               !.lastRequestTime = limiter.clock,
                               !.started[p] = limiter.clock]
  /\ LimiterFrame

\* the delay is over: lastRequestTime = Date.now(), then the request
ResumeFetchHtml(p) ==
  /\ limiter.pc[p] = "delayed"
  /\ limiter.clock >= limiter.wake[p]
  /\ limiter' = [limiter EXCEPT !.pc[p] = "requested",
                                !.lastRequestTime = limiter.clock,
                                !.started[p] = limiter.clock]
  /\ LimiterFrame

Tick ==
  /\ limiter.clock + 500 <= MaxClock
  /\ limiter' = [limiter EXCEPT !.clock = @ + 500]
  /\ LimiterFrame

NextLimiter ==
  \/ \E p \in FetchCalls : EnterFetchHtml(p)
  \/ \E p \in FetchCalls : ResumeFetchHtml(p)
  \/ Tick

SpecLimiter == InitLimiter /\ [][NextLimiter]_vars

\* ------------------------------------------------------------- country
\* The country each builder and the repair pass write into an address.  The
\* hints: the country of options.address (or "" without one), the country
\* its postal code and its region point to, the country of a known city
\* named in the service areas, the country of a state or province named in
\* the page text, a Canadian postal code in the page text.
CountryHints == {"none", "CA", "US"}
GeoInputs ==
  [addressCountry : {"", "CA", "US"}, postalCode : CountryHints,
   addressRegion : CountryHints, knownCity : CountryHints,
   pageState : CountryHints, pagePostalCode : BOOLEAN]

\* service builder
DetectCountryFromAreas(in) ==
  IF in.addressCountry # "" THEN in.addressCountry
  ELSE IF in.postalCode = "CA" THEN "CA"
  ELSE IF in.postalCode = "US" THEN "US"
  ELSE IF in.addressRegion = "CA" THEN "CA"
  ELSE IF in.addressRegion = "US" THEN "US"
  ELSE IF in.knownCity = "CA" THEN "CA"
  ELSE IF in.knownCity = "US" THEN "US"
  ELSE "US"

\* local business builder
DetectCountry(in) ==
  IF in.addressCountry # "" THEN in.addressCountry
  ELSE IF in.postalCode = "CA" THEN "CA"
  ELSE IF in.postalCode = "US" THEN "US"
  ELSE IF in.addressRegion = "CA" THEN "CA"
  ELSE IF in.addressRegion = "US" THEN "US"
  ELSE IF in.knownCity = "CA" THEN "CA"
  ELSE IF in.knownCity = "US" THEN "US"
  ELSE "US"

\* location builder: extractLocation, then locationInfo.country || 'CA'
LocationCountry(in) ==
  LET country == IF in.pageState # "none" THEN in.pageState
                 ELSE IF in.pagePostalCode THEN "CA"
                 ELSE Undefined
  IN IF country = Undefined THEN "CA" ELSE country

\* repair pass: detectedCountry, written where an address has no country
RepairCountry(in) ==
  LET detectedCountry == "CA"
  IN IF in.knownCity = "CA" THEN "CA" ELSE detectedCountry

StoreFrame ==
  UNCHANGED <<postmeta, nextId, backups, persisted, file, now, call, stmts,
              result, before, law, race, job, fetch, limiter>>

InitCountry ==
  /\ InitIdle
  /\ job = NoJob
  /\ fetch = NoFetch
  /\ limiter = NoLimiter
  /\ page = NoPage
  /\ det = NoDet
  /\ svcType = NoSvcType
  /\ repair = NoRepair
  /\ \E in \in GeoInputs : geo = [NoGeo EXCEPT !.in = in]

DetectCountries ==
  /\ ~geo.done
  /\ geo' = [geo EXCEPT !.done = TRUE,
                        !.out = [service |-> DetectCountryFromAreas(geo.in),
                                 localBusiness |-> DetectCountry(geo.in),
                                 location |-> LocationCountry(geo.in),
                                 repair |-> RepairCountry(geo.in)]]
  /\ StoreFrame
  /\ UNCHANGED <<page, det, svcType, repair>>

SpecCountry == InitCountry /\ [][DetectCountries]_vars

\* -------------------------------------------------------- service type
\* extractServiceType: the first entry of servicePatterns whose pattern is
\* found in the text.  A word is the sequence of its parts, so that one word
\* can occur inside another ("ac" in "hvac"); a text is a sequence of words;
\* an alternative of a pattern is a sequence of parts, found in a text when
\* it occurs in the parts of the text in a row (\s* between the words of a
\* pattern also allows none, and every pattern is case-insensitive).
Words ==
  { <<"ac">>, <<"hv", "ac">>, <<"repair">>, <<"install">>, <<"heat">>,
    <<"heat", "ing">>, <<"heat", "er">>, <<"pump">>, <<"humidifier">>,
    <<"de", "humidifier">>, <<"smart">>, <<"thermostat">>, <<"cool", "ing">>,
    <<"furnace">> }
Texts == UNION {[1..n -> Words] : n \in 0..MaxWords}

\* entries of servicePatterns, in the order of the table
ServicePatterns ==
  << [type |-> "Air Conditioning Repair",
      pattern |-> { <<"ac", "repair">>,
                    <<"air", "condition", "er", "repair">>,
                    <<"air", "condition", "ing", "repair">> }],
     [type |-> "Air Conditioning Installation",
      pattern |-> { <<"ac", "install">>,
                    <<"air", "condition", "er", "install">>,
                    <<"air", "condition", "ing", "install">> }],
     [type |-> "Heating Repair",
      pattern |-> { <<"heat", "er", "repair">>, <<"heat", "ing", "repair">> }],
     [type |-> "Heat Pump Service", pattern |-> { <<"heat", "pump">> }],
     [type |-> "Humidifier Service", pattern |-> { <<"humidifier">> }],
     [type |-> "Dehumidifier Service", pattern |-> { <<"de", "humidifier">> }],
     [type |-> "Smart Thermostat Installation",
      pattern |-> { <<"smart", "thermostat">> }],
     [type |-> "Thermostat Service", pattern |-> { <<"thermostat">> }],
     [type |-> "HVAC Repair", pattern |-> { <<"hv", "ac", "repair">> }],
     [type |-> "HVAC Installation", pattern |-> { <<"hv", "ac", "install">> }],
     [type |-> "HVAC Service",
      pattern |-> { <<"hv", "ac">>, <<"heat", "ing">>, <<"cool", "ing">>,
                    <<"air", "condition">> }] >>

RECURSIVE Flatten(_)
Flatten(text) ==
  IF text = <<>> THEN <<>> ELSE Head(text) \o Flatten(Tail(text))

\* b occurs in a
Occurs(b, a) ==
  \E k \in 0..(Len(a) - Len(b)) : SubSeq(a, k + 1, k + Len(b)) = b

\* pattern.test(combinedText)
Test(pattern, text) == \E alt \in pattern : Occurs(alt, Flatten(text))

\* the index of the entry returned, 0 for the default (the title)
RECURSIVE FirstMatch(_, _)
FirstMatch(text, i) ==
  IF i > Len(ServicePatterns) THEN 0
  ELSE IF Test(ServicePatterns[i].pattern, text) THEN i
  ELSE FirstMatch(text, i + 1)
ExtractServiceType(text) == FirstMatch(text, 1)

InitServiceType ==
  /\ InitIdle
  /\ job = NoJob
  /\ fetch = NoFetch
  /\ limiter = NoLimiter
  /\ page = NoPage
  /\ det = NoDet
  /\ geo = NoGeo
  /\ repair = NoRepair
  /\ \E text \in Texts : svcType = [NoSvcType EXCEPT !.in = text]

ExtractType ==
  /\ ~svcType.done
  /\ svcType' = [svcType EXCEPT !.done = TRUE,
                                !.out = ExtractServiceType(svcType.in)]
  /\ StoreFrame
  /\ UNCHANGED <<page, det, geo, repair>>

SpecServiceType == InitServiceType /\ [][ExtractType]_vars

\* --------------------------------------------------------- repair pass
\* ensureProviderAddresses(schemas, orgInfo, pageData), called by
\* generateSchemas on what the AI response parsed to.  An item is
\* { type, schema }; of a schema the @type, the address (the parts with a
\* non-empty value) and the provider are kept.  orgInfo is the object the
\* caller was given: its name may be under `name`, under `orgName`, or absent.
RepairTypes == {"HVACBusiness", "LocalBusiness", "Service"}
NoRef == [id |-> "", keys |-> {}]
RepairAddresses ==
  {NoAddress} \cup {Addr(f) : f \in SUBSET {"streetAddress", "addressLocality"}}
RepairItems ==
  {[hasSchema |-> FALSE, type |-> "", address |-> NoAddress, provider |-> NoRef]}
  \cup [hasSchema : {TRUE}, type : RepairTypes, address : RepairAddresses,
        provider : {NoRef, [id |-> "#organization", keys |-> {"@id", "name"}]}]
RepairSchemas ==
  {<<a>> : a \in RepairItems}
  \cup {<<a, b>> : a \in {x \in RepairItems : x.hasSchema /\ x.type = "Service"},
                   b \in {x \in RepairItems : x.type \in {"HVACBusiness",
                                                           "LocalBusiness"}}}
CanadianCities == {"Hamilton", "Toronto"}
RepairInputs ==
  [schemas : RepairSchemas,
   areaServed : {"", ",", "Toronto", "Springfield, Toronto"},
   serviceAreas : {<<>>, <<"Dayton">>},
   orgName : {"name", "orgName", "none"}]

\* areaServed.split(',').map(a => a.trim()).filter(a => a)
SplitAreas(areaServed) ==
  IF areaServed = "Toronto" THEN <<"Toronto">>
  ELSE IF areaServed = "Springfield, Toronto" THEN <<"Springfield", "Toronto">>
  ELSE <<>>
AllAreas(in) ==
  IF in.areaServed # "" THEN SplitAreas(in.areaServed) ELSE in.serviceAreas
\* allAreas[0] || '', replaced by the first Canadian city found in the areas
DetectedCity(in) ==
  LET allAreas == AllAreas(in)
      found == {i \in 1..Len(allAreas) : allAreas[i] \in CanadianCities}
  IN IF found # {} THEN allAreas[CHOOSE i \in found : \A j \in found : i <= j]
     ELSE IF allAreas # <<>> THEN allAreas[1]
     ELSE ""
\* orgInfo.name
OrgInfoName(in) == IF in.orgName = "name" THEN "Acme Heating" ELSE ""
\* detectedCity || orgInfo.name
RepairLocality(in) ==
  IF DetectedCity(in) # "" THEN DetectedCity(in) ELSE OrgInfoName(in)

CleanIdReference(obj) ==
  IF obj.id # "" THEN [id |-> obj.id, keys |-> {"@id"}] ELSE obj

\* the map callback of ensureProviderAddresses
RepairItem(item, in) ==
  IF ~item.hasSchema THEN item
  ELSE
    LET cleaned == [item EXCEPT !.provider = IF item.type = "Service"
                                              THEN CleanIdReference(@) ELSE @]
        locality == IF RepairLocality(in) # "" THEN {"addressLocality"} ELSE {}
    IN IF item.type \in {"HVACBusiness", "LocalBusiness"}
       THEN IF ~item.address.present
            THEN [cleaned EXCEPT !.address =
                    Addr(locality \cup {"addressRegion", "addressCountry"})]
            ELSE IF item.address.filled
                      \cap {"addressLocality", "streetAddress"} = {}
            THEN [cleaned EXCEPT !.address =
                    Addr(item.address.filled \cup locality
                         \cup {"addressRegion", "addressCountry"})]
            ELSE cleaned
       ELSE cleaned

EnsureProviderAddresses(in) ==
  [i \in 1..Len(in.schemas) |-> RepairItem(in.schemas[i], in)]

InitRepair ==
  /\ InitIdle
  /\ job = NoJob
  /\ fetch = NoFetch
  /\ limiter = NoLimiter
  /\ page = NoPage
  /\ det = NoDet
  /\ geo = NoGeo
  /\ svcType = NoSvcType
  /\ \E in \in RepairInputs : repair = [NoRepair EXCEPT !.in = in]

Repair ==
  /\ ~repair.done
  /\ repair' = [repair EXCEPT !.done = TRUE,
                              !.out = EnsureProviderAddresses(repair.in)]
  /\ StoreFrame
  /\ UNCHANGED <<page, det, geo, svcType>>

SpecRepair == InitRepair /\ [][Repair]_vars

\* ===================================================== properties
Content(pm) == {<<r.post_id, r.meta_key, r.meta_value>> : r \in pm}
Writes == SelectSeq(stmts, LAMBDA e : e.ev \in RowChanging)
RowKey(r) == MetaKey(IF r.type # Undefined THEN r.type
                     ELSE ExtractSchemaType(r.schema))
CommittedExecute == call.op = "insertSchema" /\ call.dryRun = "false"

\* C1 - Rollback law: after backup(r), one committed execute on r that wrote
\* (INSERT or UPDATE) and a successful rollback(r), all by the same client
\* with no call in between, the schema rows of r carry exactly the
\* (key, value) pairs they carried immediately before the execute.
RollbackLaw ==
  law.stage = 3 => Pairs(SchemaRowsOf(postmeta, law.postId)) = law.rows
RollbackLawWitness ==
  /\ law.stage = 3
  /\ Pairs(SchemaRowsOf(before.postmeta, law.postId)) # law.rows
  /\ law.rows # {}

\* C2 - Dry-run is the default of every operation that can write or delete
\* rows: a call made without dryRun: false leaves the content of every row
\* and the three backup stores as it found them.
DestructiveOps ==
  {"insertSchema", "insertMultipleSchemas", "insertFromGraph", "rollback"}
DryRunIsDefaultEverywhere ==
  (call.op \in DestructiveOps /\ call.dryRun # "false") =>
    /\ Content(postmeta) = Content(before.postmeta)
    /\ backups = before.backups
    /\ persisted = before.persisted
    /\ file = before.file

\* C3 - With backup requested, every row-changing statement of a call comes
\* after a successful write of the backup both to memory and to the file.
BackupWrittenBeforeWrite ==
  call.backup =>
    \A i \in 1..Len(stmts) :
      stmts[i].ev \in RowChanging =>
        /\ \E j \in 1..(i - 1) : stmts[j] = Ev("BACKUP_MEM", NoKey, NoError)
        /\ \E j \in 1..(i - 1) : stmts[j] = Ev("BACKUP_FILE", NoKey, NoError)

\* C4 - preview is read-only: after previewInsertion, for an existing or a
\* missing record, the table, every client's backups, the backup index and
\* the backups file are what they were before the call.
PreviewIsReadOnly ==
  call.op = "previewInsertion" => Snapshot = before /\ stmts = <<>>
PreviewIsReadOnlyWitness ==
  /\ call.op = "previewInsertion"
  /\ ~result.success
  /\ call.postId \notin ExistingPosts
  /\ postmeta # {}

RollbackWithoutBackup ==
  ( /\ call.op = "rollback"
    /\ call.postId \notin DOMAIN before.backups[call.client]
    /\ call.postId \notin DOMAIN before.persisted
    /\ call.postId \notin DOMAIN before.file ) =>
      /\ ~result.threw
      /\ ~result.success
      /\ result.error = "No backup found for post ID"
      /\ stmts = <<>>
      /\ postmeta = before.postmeta
RollbackWithoutBackupWitness ==
  /\ call.op = "rollback"
  /\ ~result.threw
  /\ ~result.success
  /\ SchemaRowsOf(postmeta, call.postId) # {}
  /\ \E p \in DOMAIN before.persisted : p # call.postId

\* C7 - When the store rejects the write of a committed execute, the result
\* is a failure carrying the store's message unchanged, and with backup
\* requested the client holds the backup taken in that call: a rollback of
\* the record that the store accepts succeeds and leaves the record's schema
\* rows as they were before the execute.
StoreRejectionSurfaced ==
  (CommittedExecute /\ Len(Writes) = 1 /\ Writes[1].outcome # NoError) =>
    /\ ~result.threw
    /\ ~result.success
    /\ result.error = Writes[1].outcome
    /\ result.canRollback = call.backup
    /\ call.backup =>
         /\ call.postId \in DOMAIN backups[call.client]
         /\ LET c == call.client
                p == call.postId
                b == backups[c][p]
                o == RollbackOp(Here(c), p, Len(RestorableOf(b)) + 1, NoError)
            IN /\ b.schemas = GetExistingSchemas(before.postmeta, p)
               /\ o.result.success
               /\ Pairs(SchemaRowsOf(o.postmeta, p))
                    = Pairs(SchemaRowsOf(before.postmeta, p))
StoreRejectionSurfacedWitness ==
  /\ CommittedExecute
  /\ Len(Writes) = 1
  /\ Writes[1].outcome \in StoreErrors
  /\ call.backup
  /\ SchemaRowsOf(postmeta, call.postId) # {}

\* C8 - A committed multi-row insert that did not throw returns one result
\* per row, in input order, and reports success exactly when every row
\* succeeded; on an existing record it sends one row-changing statement per
\* row, in input order, whatever the store answered to the earlier ones.
MultiRowOps == {"insertMultipleSchemas", "insertFromGraph"}
CommittedMultiRow ==
  /\ call.op \in MultiRowOps
  /\ call.op = "insertFromGraph" => call.hasGraph
  /\ call.dryRun = "false"
  /\ ~result.threw
ReplaceAllRemovesOtherTypes ==
  ( /\ CommittedMultiRow
    /\ call.op = "insertFromGraph"
    /\ call.rows # <<>>
    /\ result.success ) =>
    {r.meta_key : r \in SchemaRowsOf(postmeta, call.postId)}
      = {RowKey(call.rows[i]) : i \in 1..Len(call.rows)}

\* C10 - Without a primaryType option, insertFromGraph designates as primary
\* the first persisted entity, in graph order, of type Service, Article or
\* Product, and the first persisted entity when there is none.
PersistedOf(graph) ==
  SelectSeq(graph, LAMBDA e : ~(ExtractSchemaType(e) \in ReferenceOnlyTypes
                                /\ e.nkeys <= 3))
ExpectedPrimary(graph) ==
  LET ps == PersistedOf(graph)
      pref == {i \in 1..Len(ps) : ExtractSchemaType(ps[i]) \in PreferredPrimaryTypes}
  IN IF pref = {} THEN ps[1]
     ELSE ps[CHOOSE i \in pref : \A j \in pref : i <= j]
PrimaryIsFirstPreferred ==
  ( /\ call.op = "insertFromGraph"
    /\ call.hasGraph
    /\ call.primaryType = Undefined
    /\ call.rows # <<>> ) =>
      call.rows[1].schema = ExpectedPrimary(call.graph)

\* C11 - The backup index is not single-slot: after a new backup of a record
\* the earlier backup of the same record, which the index held before the
\* call, is still held by the index.
HeldBackups == {persisted[p] : p \in DOMAIN persisted}
BackupKeepsEarlierOfSameRecord ==
  ( /\ call.op = "backupMeta"
    /\ result.success
    /\ call.postId \in DOMAIN before.persisted
    /\ Cardinality(DOMAIN persisted) < MAX_BACKUPS ) =>
      before.persisted[call.postId] \in HeldBackups

\* C12 - Two committed insertSchema calls for the same record and type run
\* concurrently: when both have returned success, the store holds exactly
\* one row under the record's type-derived key, and its value is the value
\* one of the two calls wrote.
RaceDone == race.pc = [i \in Procs |-> "done"]
RaceEndsWithOneRow ==
  (RaceDone /\ \A i \in Procs : race.result[i].success) =>
    LET rows == {r \in postmeta : r.post_id = race.post /\ r.meta_key = RaceKey}
    IN /\ Cardinality(rows) = 1
       /\ \E r \in rows, i \in Procs : r.meta_value = RaceValue(i)

\* C13 - A backup, execute or rollback call on one record leaves the backup
\* held for every other record as it was: in every client's Map, in the
\* index and in the backups file (the retention bound not being reached).
HeldFor(m, p) == IF p \in DOMAIN m THEN m[p] ELSE NoBackup
RecordOps == {"backupMeta", "insertSchema", "rollback"}
NoCrossRecordInterference ==
  (call.op \in RecordOps /\ Cardinality(DOMAIN persisted) < MAX_BACKUPS) =>
    \A b \in PostIds \ {call.postId} :
      /\ \A c \in Clients :
           HeldFor(backups[c], b) = HeldFor(before.backups[c], b)
      /\ HeldFor(persisted, b) = HeldFor(before.persisted, b)
      /\ HeldFor(file, b) = HeldFor(before.file, b)

InvalidGraphNotWritten ==
  ( /\ call.op = "insertFromGraph"
    /\ call.hasGraph
    /\ call.dryRun = "false"
    /\ ~Validate(TRUE, call.graph).valid ) =>
      Writes = <<>> /\ postmeta = before.postmeta

\* C16 - In every graph generate() returns, each LocalBusiness-family entity
\* and each Service's provider has an address whose streetAddress or
\* addressLocality is non-empty.
LocalBusinessFamily == {"LocalBusiness", "HVACBusiness"}
HasPlace(a) ==
  a.present /\ a.filled \cap {"streetAddress", "addressLocality"} # {}
AddressesPopulated ==
  page.done =>
    \A i \in 1..Len(page.graph) :
      LET e == page.graph[i]
      IN /\ e.type \in LocalBusinessFamily => HasPlace(e.address)
         /\ e.type = "Service" =>
              \A o \in e.nested : o.field = "provider" => HasPlace(o.address)

\* C17 - In every graph generate() returns, a nested object whose @id is the
\* @id of an entity of the graph has @id as its only key.
GraphIds(graph) == {graph[i].id : i \in 1..Len(graph)} \ {""}
ReferencesArePure ==
  page.done =>
    \A i \in 1..Len(page.graph) :
      \A o \in page.graph[i].nested :
        o.id \in GraphIds(page.graph) => o.keys = {"@id"}

\* C18 - detect returns location exactly when the location score is at
\* least each of the other two scores and at least the floor; otherwise it
\* returns service when the service score is greater than the article score
\* and article when it is equal or smaller.
LocationNeedsMaxAndFloor ==
  det.done =>
    LET sc == det.scores
        wins == /\ sc.location >= sc.article
                /\ sc.location >= sc.service
                /\ sc.location >= LocationFloor
    IN /\ det.out = "location" <=> wins
       /\ ~wins => /\ det.out = "service" <=> sc.service > sc.article
                   /\ det.out = "article" <=> sc.service <= sc.article
LocationNeedsMaxAndFloorWitness ==
  /\ det.done
  /\ det.scores.location >= det.scores.article
  /\ det.scores.location >= det.scores.service
  /\ det.scores.location > 0
  /\ det.scores.location < LocationFloor
  /\ det.out = "article"

\* C19 - With every signal empty or missing, detect returns article.
NoSignals(in) ==
  /\ ~in.blogUrl /\ ~in.serviceUrl /\ ~in.locationUrl
  /\ in.postType \in {"none", "unknown"}
  /\ ~in.author /\ ~in.publishDate /\ ~in.categories /\ ~in.tags
  /\ in.keywordHits = 0
  /\ in.serviceHeadings = 0 /\ in.articleHeadings = 0
  /\ in.locationHeadings = 0 /\ in.locationPhrases = 0
EmptySignalsGiveArticle ==
  (det.done /\ NoSignals(det.in)) => det.out = "article"

\* C20 - In a bulk job a failure while processing one URL (scrape, lookup or
\* insert error) is recorded for that URL and does not stop the job: the job
\* never ends before every URL was processed, each processed URL has exactly
\* one record, an error record if it failed and a result record otherwise.
RecordsOf(log, url) == {k \in 1..Len(log) : log[k].url = url}
BatchSurvivesFailures ==
  /\ job.status \in {"running", "completed"}
  /\ job.processed = Len(job.outcomes)
  /\ job.status = "completed" <=> job.processed = job.n
  /\ \A url \in 1..Len(job.outcomes) :
       IF job.outcomes[url].failed
       THEN /\ Cardinality(RecordsOf(job.errors, url)) = 1
            /\ RecordsOf(job.results, url) = {}
       ELSE /\ Cardinality(RecordsOf(job.results, url)) = 1
            /\ RecordsOf(job.errors, url) = {}
BatchSurvivesFailuresWitness ==
  /\ job.status = "completed"
  /\ job.n = MaxUrls
  /\ job.outcomes[1].failed
  /\ job.outcomes[2].kind = "inserted" /\ job.outcomes[2].failed
  /\ \E k \in RecordsOf(job.results, MaxUrls) : job.results[k].success

\* C21 - Every external fetch makes a bounded number of attempts, each with
\* a bounded timeout, and an attempt that failed for a reason that is not
\* transient (a 4xx response, a DNS failure, a refused connection) is never
\* followed by another attempt.
PermanentFailures == {"http_4xx", "ENOTFOUND", "ECONNREFUSED"}
PermanentFailureNotRetried ==
  /\ Len(fetch.log) <= DefaultMaxRetries
  /\ \A i \in 1..Len(fetch.log) :
       /\ fetch.log[i].timeout <= RequestTimeout
       /\ i < Len(fetch.log) => fetch.log[i].outcome \notin PermanentFailures

\* C22 - Any two direct page fetches start at least 1.5 seconds apart, also
\* when several fetchHtml calls are in progress at the same time.
Requested == {p \in FetchCalls : limiter.pc[p] = "requested"}
FetchesStartIntervalApart ==
  \A p \in Requested, q \in Requested :
    p # q =>
      \/ limiter.started[p] - limiter.started[q] >= MIN_REQUEST_INTERVAL
      \/ limiter.started[q] - limiter.started[p] >= MIN_REQUEST_INTERVAL

\* C23 - After a successful committed insertFromGraph on a record, exactly
\* one stored schema row of that record carries the primary flag, whatever
\* rows the record held before and whatever the type of the designated
\* entity.
IsPrimaryRow(r) ==
  \E i \in 1..Len(r.meta_value.meta.kv) :
    r.meta_value.meta.kv[i] = <<"isPrimary", "1">>
PrimaryRowsOf(pm, postId) == {r \in SchemaRowsOf(pm, postId) : IsPrimaryRow(r)}
ExactlyOnePrimaryRow ==
  ( /\ CommittedMultiRow
    /\ call.op = "insertFromGraph"
    /\ call.rows # <<>>
    /\ call.postId \in ExistingPosts
    /\ result.success ) =>
    Cardinality(PrimaryRowsOf(postmeta, call.postId)) = 1

\* C24 - When the country cannot be inferred from an address or a known
\* city name, every builder and the repair pass use the same single default
\* country code.
NoCountryHint(in) ==
  /\ in.addressCountry = ""
  /\ in.postalCode = "none"
  /\ in.addressRegion = "none"
  /\ in.knownCity = "none"
  /\ in.pageState = "none"
  /\ ~in.pagePostalCode
OneDefaultCountry ==
  (geo.done /\ NoCountryHint(geo.in)) =>
    /\ geo.out.service = geo.out.localBusiness
    /\ geo.out.localBusiness = geo.out.location
    /\ geo.out.location = geo.out.repair

\* C25 - In the ordered service-type pattern table, a pattern every match of
\* which is also a match of another, more generic pattern comes before that
\* pattern: a text that matches an entry is never taken by an earlier entry
\* whose pattern matches everything the later entry's pattern matches.
\* Entry i is more generic than entry j when each alternative of j contains
\* an alternative of i.
MoreGeneric(i, j) ==
  \A a \in ServicePatterns[j].pattern :
    \E b \in ServicePatterns[i].pattern : Occurs(b, a)
SpecificPatternFirst ==
  svcType.done =>
    \A j \in 1..Len(ServicePatterns) :
      ( /\ Test(ServicePatterns[j].pattern, svcType.in)
        /\ svcType.out # 0
        /\ svcType.out < j ) => ~MoreGeneric(svcType.out, j)

\* C26 - After the repair pass every standalone business-type entity of the
\* output has an address with a non-empty streetAddress or addressLocality,
\* for any parsed output and any organisation and page inputs.
RepairedBusinessHasPlace ==
  repair.done =>
    \A i \in 1..Len(repair.out) :
      (repair.out[i].hasSchema /\ repair.out[i].type \in LocalBusinessFamily)
        => HasPlace(repair.out[i].address)

\* C27 - If the store rejects a statement in the middle of rollback(r), the
\* schema rows of r end either exactly as they were before the rollback or
\* exactly as in the backup, never with the current rows deleted and only a
\* part of the backup inserted again.
BackupPairs(backup) ==
  {<<RestorableOf(backup)[i].key, RestorableOf(backup)[i].value>> :
     i \in 1..Len(RestorableOf(backup))}
RollbackAllOrNothing ==
  (call.op = "rollback" /\ result.threw) =>
    LET rows == Pairs(SchemaRowsOf(postmeta, call.postId))
        backup == FindBackup(before.backups[call.client], before.persisted,
                             call.postId)
    IN \/ rows = Pairs(SchemaRowsOf(before.postmeta, call.postId))
       \/ rows = BackupPairs(backup)

\* C28 - After a successful committed insertFromGraph every persisted entity
\* of the graph has its own stored row: the number of distinct stored schema
\* rows that hold an entity of the call equals the number of per-row
\* successes reported, also when two entities have the same @type.
HoldsEntity(r, e) == r.meta_value.body = <<e.type, e.v>>
RowsHoldingCall ==
  {r \in SchemaRowsOf(postmeta, call.postId) :
     \E i \in 1..Len(call.rows) : HoldsEntity(r, call.rows[i].schema)}
Successes == {i \in 1..Len(result.results) : result.results[i].success}
OneRowPerEntity ==
  ( /\ CommittedMultiRow
    /\ call.op = "insertFromGraph"
    /\ call.postId \in ExistingPosts
    /\ result.success ) =>
    Cardinality(RowsHoldingCall) = Cardinality(Successes)

\* C29 - For every background bulk job, at every step processed equals the
\* number of result entries plus the number of error entries and never
\* exceeds total, and when the job is completed processed equals total with
\* each input URL recorded exactly once in results or errors.
JobCountsConsistent ==
  /\ job.processed = Len(job.results) + Len(job.errors)
  /\ job.processed <= job.n
  /\ job.status = "completed" =>
       /\ job.processed = job.n
       /\ \A url \in 1..job.n :
            Cardinality(RecordsOf(job.results, url))
              + Cardinality(RecordsOf(job.errors, url)) = 1
JobCountsConsistentWitness ==
  /\ job.status = "completed"
  /\ job.n = MaxUrls
  /\ \E i \in 1..job.n : job.outcomes[i].kind = "no_slug"
  /\ \E i \in 1..job.n : job.outcomes[i].kind = "post_not_found"
  /\ job.results # <<>>

\* C30 - rollback(r) changes only the schema rows of record r: the rows of
\* every other record and the rows of r that are not schema rows are the
\* same before and after the call, also when the backup holds rows that are
\* not schema rows.
OutsideSchemaRows(pm, postId) ==
  {r \in pm : ~(r.post_id = postId /\ StartsWithSchema(r.meta_key))}
RollbackTouchesOnlySchemaRows ==
  call.op = "rollback" =>
    OutsideSchemaRows(postmeta, call.postId)
      = OutsideSchemaRows(before.postmeta, call.postId)

====
